---- MODULE Spec2Model ----
(***************************************************************************)
(* Student record manager of app.py: the CSV store (load_students,         *)
(* save_students) and StudentManager (add_student, update_student,         *)
(* delete_student, list_students) over a pandas DataFrame.                 *)
(*                                                                         *)
(* A text is a sequence of one-character strings.  A cell of the           *)
(* DataFrame is a tagged value: a str, an int, or NaN.  Three of the       *)
(* source's eight columns are kept: student_id (read with dtype str),      *)
(* grade (a text column whose dtype read_csv infers; first_name,           *)
(* last_name, email and enrollment_date are handled by the same code       *)
(* paths) and score (an integer column, as age).                           *)
(***************************************************************************)
EXTENDS Integers, Sequences, FiniteSets, TLC

VARIABLES df, file, call, ret, saved, out, deleted, failures

vars == <<df, file, call, ret, saved, out, deleted, failures>>

\* ------------------------------------------------------------ bounds
\* Largest number of rows the in-memory table may hold.
MaxRows == 2

\* Largest number of writes that fail in one run of the failing store.
MaxFailures == 1

\* ------------------------------------------------------------ texts
DigitChar == <<"0", "1", "2", "3", "4", "5", "6", "7", "8", "9">>

Digits == {DigitChar[i] : i \in 1..10}

DigitVal(c) == (CHOOSE i \in 1..10 : DigitChar[i] = c) - 1

\* str(n) of a non-negative int.
RECURSIVE FormatInt(_)
FormatInt(n) ==
  IF n < 10 THEN <<DigitChar[n + 1]>>
  ELSE FormatInt(n \div 10) \o <<DigitChar[(n % 10) + 1]>>

\* The integer the C parser of read_csv makes of a text of digits
\* (leading zeros are dropped).
RECURSIVE ParseInt(_)
ParseInt(s) ==
  IF s = <<>> THEN 0
  ELSE ParseInt(SubSeq(s, 1, Len(s) - 1)) * 10 + DigitVal(s[Len(s)])

IsDigits(s) == Len(s) > 0 /\ \A i \in 1..Len(s) : s[i] \in Digits

\* Case folding of re.IGNORECASE, on the letters in use.
Lower(c) ==
  CASE c = "A" -> "a"
    [] c = "B" -> "b"
    [] c = "N" -> "n"
    [] OTHER -> c

\* ------------------------------------------------------------ cells
Str(s) == [t |-> "str", s |-> s, n |-> 0]

Int64(n) == [t |-> "int", s |-> <<>>, n |-> n]

NaN == [t |-> "nan", s |-> <<>>, n |-> 0]

\* Series.astype(str) on one cell: str(value).
AsStr(v) ==
  CASE v.t = "str" -> v.s
    [] v.t = "int" -> FormatInt(v.n)
    [] OTHER -> <<"n", "a", "n">>

\* The strings read_csv takes for a missing value (keep_default_na), those
\* that can be written with the characters in use.
NAStrings ==
  { <<>>, <<"N", "A">>, <<"N", "a", "N">>, <<"n", "a", "n">>, <<"n", "/", "a">>,
    <<"N", "/", "A">> }

Columns == <<"student_id", "grade", "score">>

\* ------------------------------------------------------------ store
\* DataFrame.to_csv(index=False) on one cell: str(value), and the empty
\* field for NaN (na_rep='').
CsvCell(v) == IF v.t = "nan" THEN <<>> ELSE AsStr(v)

to_csv(d) ==
  [i \in 1..Len(d) |->
     [student_id |-> CsvCell(d[i].student_id),
      grade |-> CsvCell(d[i].grade),
      score |-> CsvCell(d[i].score)]]

\* read_csv on a column with no dtype given: int64 when every field is an
\* integer literal, else object with the fields as str (a missing value
\* as NaN).  The grade and score fields of the files in reach are never
\* empty and never a missing-value string, so the float64 column that
\* integers beside a missing value make does not arise.
InferCell(rows, col, i) ==
  IF \A j \in 1..Len(rows) : IsDigits(rows[j][col])
    THEN Int64(ParseInt(rows[i][col]))
  ELSE IF rows[i][col] \in NAStrings THEN NaN
  ELSE Str(rows[i][col])

\* read_csv on student_id, dtype str: the field as written, a missing
\* value as NaN.
StrCell(s) == IF s \in NAStrings THEN NaN ELSE Str(s)

read_csv(rows) ==
  [i \in 1..Len(rows) |->
     [student_id |-> StrCell(rows[i].student_id),
      grade |-> InferCell(rows, "grade", i),
      score |-> InferCell(rows, "score", i)]]

NoFile == [exists |-> FALSE, rows |-> <<>>]

FileOf(rows) == [exists |-> TRUE, rows |-> rows]

load_students(f) == IF f.exists THEN read_csv(f.rows) ELSE <<>>

\* save_students: the file after the call.  io = "fail" is a write that
\* raises (the file cannot be opened for writing), leaving the file as
\* it was.
save_students(d, f, io) == IF io = "ok" THEN FileOf(to_csv(d)) ELSE f

\* ------------------------------------------------------------ inputs
\* Identifiers, grades and scores the callers pass: "07" and "7" differ as
\* texts and agree as numbers; "NA" is one of read_csv's missing values.
Ids == { <<"0", "7">>, <<"7">>, <<"N", "A">> }

Grades == { <<"A">>, <<"0", "7">> }

Scores == {50, 91}

\* Student.__init__ and Student.to_dict: the row add_student appends.
Student(student_id, grade, score) ==
  [student_id |-> Str(student_id), grade |-> Str(grade), score |-> Int64(score)]

\* The updated_data mappings: the form's (every field but student_id, here
\* grade and score), single fields, and mappings naming student_id.
Changes ==
  { [score |-> Int64(91)],
    [grade |-> Str(<<"A">>)],
    [grade |-> Str(<<"0", "7">>), score |-> Int64(50)],
    [student_id |-> Str(<<"7">>)],
    [student_id |-> Str(<<"0", "7">>), score |-> Int64(91)] }

\* The filters mappings of the search page (empty text: no filter).
Filters ==
  [student_id : { <<>>, <<"7">> }, grade : { <<>>, <<"a">>, <<".">> }]

\* sort_by: none, a column, and a name that is no column.
SortBys == {"", "score", "rank"}

\* min_score: None is the empty set.
MinScores == { {}, {91} }

IO == {"ok", "fail"}

\* ------------------------------------------------------------ manager
Rows(d) == {d[i] : i \in 1..Len(d)}

\* The membership test without .values: "in" on a Series looks among the
\* index labels 0, 1, ..., and no text is one of them.
IdInIndex(d, student_id) ==
  \E i \in 1..Len(d) : Int64(i - 1) = Str(student_id)

\* student_id in self.df['student_id'].astype(str).values
IdExists(d, student_id) ==
  \E i \in 1..Len(d) : AsStr(d[i].student_id) = student_id

\* mask = self.df['student_id'] == student_id
Mask(d, student_id) ==
  {i \in 1..Len(d) : d[i].student_id = Str(student_id)}

\* for key, value in updated_data.items(): self.df.loc[mask, key] = value
SetLoc(d, mask, updated_data) ==
  [i \in 1..Len(d) |->
     IF i \in mask
       THEN [c \in DOMAIN d[i] |->
               IF c \in DOMAIN updated_data THEN updated_data[c] ELSE d[i][c]]
       ELSE d[i]]

Keep(r, student_id) == r.student_id # Str(student_id)

\* self.df[self.df['student_id'] != student_id]
Drop(d, student_id) ==
  LET keep(r) == Keep(r, student_id) IN SelectSeq(d, keep)

\* ------------------------------------------------------------ queries
\* Series.str.contains(pat, case=False): re.search(pat, s, re.IGNORECASE),
\* regex=True by default.  Of the regex syntax, "." (any character) is
\* modelled; every other character in use is a literal.
StrContains(s, pat) ==
  \E k \in 0..(Len(s) - Len(pat)) :
    \A j \in 1..Len(pat) : pat[j] = "." \/ Lower(pat[j]) = Lower(s[k + j])

\* for key, value in filters.items(): if value: keep the matching rows
MatchesFilters(r, filters) ==
  \A key \in DOMAIN filters :
    filters[key] # <<>> => StrContains(AsStr(r[key]), filters[key])

\* df_filtered[df_filtered['score'] >= min_score], if min_score is not None
MatchesMinScore(r, min_score) == \A m \in min_score : r.score.n >= m

Filtered(d, filters, min_score) ==
  LET keep(r) == MatchesFilters(r, filters) /\ MatchesMinScore(r, min_score)
  IN SelectSeq(d, keep)

Perms(n) == {p \in [1..n -> 1..n] : \A i, j \in 1..n : p[i] = p[j] => i = j}

\* Whether row a may come before row b in a result ordered by score.
InOrder(a, b, ascending) ==
  IF ascending THEN a.score.n <= b.score.n ELSE a.score.n >= b.score.n

\* DataFrame.sort_values(by='score', ascending=ascending), kind='quicksort'
\* by default: every arrangement ordered by the key is a possible result,
\* the order of rows with equal keys is not determined.
sort_values(d, ascending) ==
  { [i \in 1..Len(d) |-> d[p[i]]] : p \in
      {q \in Perms(Len(d)) :
         \A i \in 1..(Len(d) - 1) : InOrder(d[q[i]], d[q[i + 1]], ascending)} }

\* The results list_students may return.
ListResults(d, filters, sort_by, ascending, min_score) ==
  LET f == Filtered(d, filters, min_score)
  IN IF sort_by # "" /\ sort_by \in Rows(Columns)
       THEN sort_values(f, ascending)
       ELSE {f}

\* ------------------------------------------------------------ state
Students == {Student(i, g, s) : i \in Ids, g \in Grades, s \in Scores}

DistinctIds(d) ==
  \A i, j \in 1..Len(d) : d[i].student_id = d[j].student_id => i = j

\* Tables of at most MaxRows students with pairwise distinct identifiers.
Tables ==
  UNION { {t \in [1..n -> Students] : DistinctIds(t)} : n \in 0..MaxRows }

\* The files a manager starts from: none, or one an earlier run wrote.
Files == {NoFile} \cup {FileOf(to_csv(t)) : t \in Tables}

\* Of these, the files of at most one record.
SmallFiles == {f \in Files : Len(f.rows) <= 1}

NoCall == [op |-> "init"]

History ==
  /\ call = NoCall
  /\ ret = "none"
  /\ saved = FALSE
  /\ out = <<>>
  /\ deleted = {}
  /\ failures = 0

\* StudentManager.__init__: the table is loaded from the file.
StudentManager(files) ==
  /\ file \in files
  /\ df = load_students(file)
  /\ History

\* The table saved as it was before the call changed it.
SavedStale(io) ==
  /\ file' = save_students(df, file, io)
  /\ saved' = (io = "ok")
  /\ ret' = IF io = "ok" THEN "True" ELSE "raise"
  /\ failures' = IF io = "ok" THEN failures ELSE failures + 1

\* The outcome of a call that reached save_students.
Saved(io) ==
  /\ file' = save_students(df', file, io)
  /\ saved' = (io = "ok")
  /\ ret' = IF io = "ok" THEN "True" ELSE "raise"
  /\ failures' = IF io = "ok" THEN failures ELSE failures + 1

\* The outcome of a call that returned False before any change.
Refused ==
  /\ ret' = "False"
  /\ saved' = FALSE
  /\ UNCHANGED <<df, file, failures>>

\* A write fails at most MaxFailures times.
CanFail(io) == IF io = "ok" THEN TRUE ELSE failures < MaxFailures

add_student(student, io) ==
  LET student_id == student.student_id.s IN
  /\ IF IdExists(df, student_id) THEN TRUE ELSE Len(df) < MaxRows
  /\ CanFail(io)
  /\ call' = [op |-> "add", student_id |-> student_id, student |-> student]
  /\ out' = <<>>
  /\ IF IdExists(df, student_id)
       THEN Refused
       ELSE /\ df' = Append(df, student)
            /\ Saved(io)

update_student(student_id, updated_data, io) ==
  /\ CanFail(io)
  /\ call' = [op |-> "update", student_id |-> student_id,
              updated_data |-> updated_data]
  /\ out' = <<>>
  /\ IF ~IdExists(df, student_id)
       THEN Refused
       ELSE /\ df' = SetLoc(df, Mask(df, student_id), updated_data)
            /\ Saved(io)

delete_student(student_id, io) ==
  /\ CanFail(io)
  /\ call' = [op |-> "delete", student_id |-> student_id]
  /\ out' = <<>>
  /\ IF ~IdExists(df, student_id)
       THEN Refused
       ELSE /\ df' = Drop(df, student_id)
            /\ Saved(io)

list_students(filters, sort_by, ascending, min_score) ==
  /\ call' = [op |-> "list", filters |-> filters, sort_by |-> sort_by,
              ascending |-> ascending, min_score |-> min_score]
  /\ out' \in ListResults(df, filters, sort_by, ascending, min_score)
  /\ ret' = "ok"
  /\ saved' = FALSE
  /\ UNCHANGED <<df, file, failures>>

\* The identifiers update and delete are called with: those of the
\* students, and the text astype(str) makes of a missing identifier.
Keys == Ids \cup { <<"n", "a", "n">> }

NoFilters == [student_id |-> <<>>, grade |-> <<>>]

\* The identifiers deleted with success and not added again since: kept
\* beside the program's state, read by no operation.
Track ==
  deleted' =
    CASE call'.op = "delete" /\ ret' = "True" -> deleted \cup {call'.student_id}
      [] call'.op = "add" /\ ret' # "False" -> deleted \ {call'.student_id}
      [] OTHER -> deleted

\* The manager over a store that never fails; list_students as the home
\* page calls it.
Next ==
  \/ \E s \in Students : add_student(s, "ok") /\ UNCHANGED deleted
  \/ \E i \in Keys, u \in Changes :
       update_student(i, u, "ok") /\ UNCHANGED deleted
  \/ \E i \in Keys : delete_student(i, "ok") /\ UNCHANGED deleted
  \/ list_students(NoFilters, "", TRUE, {}) /\ UNCHANGED deleted

Spec == StudentManager(SmallFiles) /\ [][Next]_vars

\* The same, with the deleted identifiers tracked.
NextTrack ==
  \/ \E s \in Students : add_student(s, "ok") /\ Track
  \/ \E i \in Keys, u \in Changes : update_student(i, u, "ok") /\ Track
  \/ \E i \in Keys : delete_student(i, "ok") /\ Track
  \/ list_students(NoFilters, "", TRUE, {}) /\ Track

SpecTrack == StudentManager(SmallFiles) /\ [][NextTrack]_vars

\* The manager over a store whose writes may fail.
NextFail ==
  \/ \E s \in Students, io \in IO : add_student(s, io) /\ UNCHANGED deleted
  \/ \E i \in Keys, u \in Changes, io \in IO :
       update_student(i, u, io) /\ UNCHANGED deleted
  \/ \E i \in Keys, io \in IO : delete_student(i, io) /\ UNCHANGED deleted
  \/ list_students(NoFilters, "", TRUE, {}) /\ UNCHANGED deleted

SpecFail == StudentManager(SmallFiles) /\ [][NextFail]_vars

\* The search page: list_students on the table of any file.
NextQuery ==
  \E f \in Filters, s \in SortBys, a \in BOOLEAN, m \in MinScores :
    list_students(f, s, a, m) /\ UNCHANGED deleted

SpecQuery == StudentManager(Files) /\ [][NextQuery]_vars

\* The store alone: a table is saved, and a manager constructed on the
\* file loads it (the page constructs one on every run of the script).
save ==
  /\ file' = save_students(df, file, "ok")
  /\ call' = [op |-> "save"]
  /\ ret' = "ok"
  /\ saved' = TRUE
  /\ UNCHANGED <<df, out, deleted, failures>>

load ==
  /\ df' = load_students(file)
  /\ call' = [op |-> "load"]
  /\ ret' = "ok"
  /\ saved' = FALSE
  /\ UNCHANGED <<file, out, deleted, failures>>

StoreInit ==
  /\ df \in Tables
  /\ file = NoFile
  /\ History

NextStore == save \/ load

SpecStore == StoreInit /\ [][NextStore]_vars

\* ------------------------------------------------------------ claims
Mutations == {"add", "update", "delete"}

IdsOf(d) == [i \in 1..Len(d) |-> d[i].student_id]

FileIdsDistinct(f) ==
  \A i, j \in 1..Len(f.rows) :
    f.rows[i].student_id = f.rows[j].student_id => i = j

HasId(d, student_id) == \E i \in 1..Len(d) : d[i].student_id = Str(student_id)

\* C1: after any sequence of add, update and delete calls, no two records
\* of the in-memory table, of the table written to the file, or of a
\* result of list share an identifier.
C1_UniqueIdentifiers ==
  DistinctIds(df) /\ FileIdsDistinct(file) /\ DistinctIds(out)

\* C2: when save_students fails in add, update or delete, the error
\* reaches the caller and the in-memory table is as it was before the
\* call.
C2_FailedSaveRollsBack == [][ret' = "raise" => df' = df]_vars

\* C3: add with an identifier already present in the table (exact text
\* match) returns False and leaves the in-memory table and the file
\* unchanged, with no write to the file.
C3_AddExistingRefused ==
  [][(call'.op = "add" /\ HasId(df, call'.student_id))
       => (ret' = "False" /\ df' = df /\ file' = file /\ ~saved')]_vars

\* An add call with an identifier of the table was refused.
C3_Witness ==
  /\ call.op = "add"
  /\ HasId(df, call.student_id)
  /\ ret = "False"
  /\ ~saved

\* C4: a successful update changes only the fields named in the changes,
\* and only in the single record whose identifier matches; the number of
\* records and their order stay.
C4_UpdateChangesOnlyNamed ==
  [][(call'.op = "update" /\ ret' = "True")
       => /\ Len(df') = Len(df)
          /\ Cardinality({i \in 1..Len(df) : df'[i] # df[i]}) <= 1
          /\ \A i \in 1..Len(df) :
               df'[i] # df[i] =>
                 /\ df[i].student_id = Str(call'.student_id)
                 /\ \A c \in DOMAIN df[i] \ DOMAIN call'.updated_data :
                      df'[i][c] = df[i][c]]_vars

\* C5: update never changes the identifier of any record, whatever the
\* changes name: the sequence of identifiers is the same after as before.
C5_UpdateKeepsIdentifiers ==
  [][call'.op = "update" => IdsOf(df') = IdsOf(df)]_vars

\* C6: after delete(id) succeeds and until a later add of the same id, the
\* in-memory table and every list result hold no record with that id, and
\* another delete(id) returns False.
C6_DeletedStaysAbsent ==
  [][/\ \A id \in deleted' : ~HasId(df', id) /\ ~HasId(out', id)
     /\ (call'.op = "delete" /\ call'.student_id \in deleted)
          => ret' = "False"]_vars

\* C7: list sorted by a column is a stable sort: the result is the
\* filtered rows ordered by the column, rows with equal values in their
\* order in the table.
C7_SortIsStable ==
  (call.op = "list" /\ call.sort_by = "score") =>
    LET f == Filtered(df, call.filters, call.min_score)
    IN \E p \in Perms(Len(f)) :
         /\ out = [i \in 1..Len(f) |-> f[p[i]]]
         /\ \A i, j \in 1..Len(f) :
              i < j =>
                /\ InOrder(f[p[i]], f[p[j]], call.ascending)
                /\ f[p[i]].score = f[p[j]].score => p[i] < p[j]

\* Whether text s holds pat as a literal substring, letter case ignored.
LiteralContains(s, pat) ==
  \E k \in 0..(Len(s) - Len(pat)) :
    \A j \in 1..Len(pat) : Lower(pat[j]) = Lower(s[k + j])

LiteralMatch(r, filters) ==
  \A key \in DOMAIN filters :
    filters[key] # <<>> => LiteralContains(AsStr(r[key]), filters[key])

\* C8: list with filters and no sort returns exactly the records whose
\* fields, as text, hold every non-empty filter text as a literal
\* case-insensitive substring, in their order in the table.
C8_FilterIsLiteralSubstring ==
  (call.op = "list" /\ call.sort_by \notin Rows(Columns) /\ call.min_score = {}) =>
    LET keep(r) == LiteralMatch(r, call.filters) IN out = SelectSeq(df, keep)

\* C9: saving a table and loading it again yields the same table, every
\* identifier the same text; loading with no file yields the empty table.
C9_SaveLoadRoundTrip ==
  [][call'.op = "load" =>
       /\ call.op = "save" => df' = df
       /\ ~file.exists => df' = <<>>]_vars

\* C10: with a store that does not fail, the file holds the in-memory
\* table after every call: a successful add, update or delete writes the
\* whole table, a refused call writes nothing and changes nothing, and
\* list neither writes the file nor changes the table.
C10_FileIsTable ==
  [][/\ file' = FileOf(to_csv(df')) \/ df' = load_students(file')
     /\ (call'.op \in Mutations /\ ret' = "True")
          => (saved' /\ file' = FileOf(to_csv(df')))
     /\ (call'.op \in Mutations /\ ret' = "False")
          => (~saved' /\ file' = file /\ df' = df)
     /\ call'.op = "list" => (~saved' /\ file' = file /\ df' = df)]_vars

\* A delete removed a record of a table of two and the file holds the
\* one left.
C10_Witness ==
  /\ call.op = "delete"
  /\ ret = "True"
  /\ saved
  /\ Len(df) = 1
  /\ file = FileOf(to_csv(df))

====
